---- MODULE Spec2Model ----
(***************************************************************************)
(* Hash-collision simulation: the hash function set (hash_functions.py),   *)
(* the input generator, the experiment runner and the sweep orchestrator   *)
(* (collision_analysis.py), driven by main (main.py).                      *)
(*                                                                         *)
(* Three specifications:                                                   *)
(*   Spec      one run of main: seed, then the sweep over table_sizes x    *)
(*             input_sizes, one experiment per cell.                       *)
(*   RerunSpec main run twice with the same command line, on random        *)
(*             integers.                                                   *)
(*   ExpSpec   run_collision_experiment called directly with any hash      *)
(*             function, table size, input list and base.                  *)
(***************************************************************************)
EXTENDS Integers, Sequences, FiniteSets, TLC

VARIABLES
    \* ---- command line / call arguments
    hash_func,      \* "modulo" | "polynomial" | "built_in"
    base,           \* polynomial_hash's base (kwargs of run_collision_experiment)
    table_sizes,    \* list of table sizes of the sweep
    input_sizes,    \* list of input sizes of the sweep
    distribution,   \* distribution tag
    seed,           \* args.seed: [given, value], given FALSE for None
    string_length,  \* args.string_length, the length of a random string
    \* ---- process state
    pc,             \* position of the program
    err,            \* the uncaught exception, "none" while there is none
    rng,            \* the random module's generator: [seeded, pos]
    tape,           \* the draws the seeded generator has produced, by position
    strhash,        \* hash() of the strings hashed so far in this process
    \* ---- run_sweep_experiments
    ti, ii,         \* positions in table_sizes and input_sizes (1-based)
    results,        \* results dict: (table_size, input_size) -> result
    gens,           \* number of inputs lists get_inputs has returned in this run
    run,            \* 1 or 2: which of the two runs of main
    prev,           \* what the first run left: [results, err]
    \* ---- run_collision_experiment
    table_size, inputs, k, bucket_counts, collisions,
    idx,            \* the bucket index the hash function returned, "none" before
    result,         \* the returned dict, "none" before
    \* ---- polynomial_hash
    s, j, h

cfgvars == <<hash_func, base, table_sizes, input_sizes, distribution, seed,
            string_length>>
procvars == <<rng, tape, strhash>>
sweepvars == <<ti, ii, results, gens, run, prev>>
expvars == <<table_size, inputs, k, bucket_counts, collisions, idx, result>>
polyvars == <<s, j, h>>
vars == <<cfgvars, pc, err, procvars, sweepvars, expvars, polyvars>>

----------------------------------------------------------------------------
\* Bounds of the model.

\* largest table size of a sweep (the smallest is -1)
MaxTable == 3
\* largest input size of a sweep
MaxInput == 2
\* longest table_sizes / input_sizes list
MaxList == 2
\* random_integers draws from 0..MaxRand (high defaults to 1000000)
MaxRand == 1
\* longest input list of a direct run_collision_experiment call
MaxLen == 3
\* hash() of a string lies in -MaxHash..MaxHash
MaxHash == 2

----------------------------------------------------------------------------
\* Values: Python ints and strs. A str is the sequence of its code points.

\* --seed's default, None
NoSeed == [given |-> FALSE, value |-> 0]

IntV(n) == [tag |-> "int", n |-> n, s |-> <<>>]
StrV(str) == [tag |-> "str", n |-> 0, s |-> str]

\* Python's a % b for b # 0: the result has the sign of b (floored division).
PyModTrunc(a, b) ==
    LET aa == IF a < 0 THEN -a ELSE a
        bb == IF b < 0 THEN -b ELSE b
    IN  IF a < 0 THEN -(aa % bb) ELSE aa % bb

PyMod(a, b) == IF b > 0 THEN a % b ELSE -((-a) % (-b))

\* str(n) for an int: decimal digits, '-' (45) first when negative; '0' is 48.
RECURSIVE Digits(_)
Digits(n) == IF n < 10 THEN <<48 + n>> ELSE Append(Digits(n \div 10), 48 + (n % 10))

PyStr(v) ==
    IF v.tag = "str" THEN v.s
    ELSE IF v.n < 0 THEN <<45>> \o Digits(-v.n) ELSE Digits(v.n)

\* hash(n) for an int with |n| < 2^61 - 1: n itself, except hash(-1) = -2.
PyHashInt(n) == IF n = -1 THEN -2 ELSE n

\* hash() of a str: keyed by the process's hash seed, so any value, but the same
\* one for the same string within a process; hash("") is 0 and no hash is -1.
StrHashes(str) ==
    IF str \in DOMAIN strhash THEN {strhash[str]}
    ELSE IF str = <<>> THEN {0}
    ELSE (-MaxHash..MaxHash) \ {-1}

\* hash(v), sh being the hash of v's text when v is a str
PyHash(v, sh) == IF v.tag = "int" THEN PyHashInt(v.n) ELSE sh


----------------------------------------------------------------------------
\* hash_functions.py

\* what a call does: it returns a bucket index or raises
Ret(i) == [ok |-> TRUE, idx |-> i, exc |-> "none"]
Raise(e) == [ok |-> FALSE, idx |-> 0, exc |-> e]

\* base=31, the default of polynomial_hash
DefaultBase == 31
\* --string_length's default
DefaultStringLength == 10

\* modulo_hash(value, table_size)
modulo_hash(value, t, sh) ==
    IF t = 0 THEN Raise("ZeroDivisionError")
    ELSE IF value.tag = "int" THEN Ret(PyMod(value.n, t))
    ELSE Ret(PyMod(PyHash(value, sh), t))

\* built_in_hash(value, table_size)
built_in_hash(value, t, sh) ==
    IF t = 0 THEN Raise("ZeroDivisionError")
    ELSE Ret(PyMod(PyHash(value, sh), t))

\* one turn of polynomial_hash's loop: h = (h * base + ord(ch)) % table_size
PolyFoldNoMod(acc, b, ch, t) == acc * b + ch

PolyFold(acc, b, ch, t) == PyMod(acc * b + ch, t)

----------------------------------------------------------------------------
\* run_collision_experiment(hash_func, table_size, inputs, **kwargs)

\* [0] * table_size: a list of max(0, table_size) zeros, indexed from 0
NewBucketsOneMore(t) == [b \in 0..t |-> 0]

NewBuckets(t) == [b \in 0..(t - 1) |-> 0]

BucketLen(bc) == Cardinality(DOMAIN bc)

\* list indexing: -len <= i < len, a negative index counting from the end
ValidIndex(bc, i) == -BucketLen(bc) <= i /\ i < BucketLen(bc)
ListPos(bc, i) == IF i < 0 THEN i + BucketLen(bc) ELSE i

\* if bucket_counts[idx] > 0
IsCollisionPairs(bc, p) == bc[p] > 1

IsCollision(bc, p) == bc[p] > 0

Failed(e) == pc' = "failed" /\ err' = e

\* bucket_counts = [0] * table_size; collisions = 0
ExpBegin ==
    /\ pc = "exp_call"
    /\ bucket_counts' = NewBuckets(table_size)
    /\ collisions' = 0
    /\ k' = 0
    /\ pc' = "exp_loop"
    /\ UNCHANGED <<cfgvars, err, procvars, sweepvars, table_size, inputs, idx,
                   result, polyvars>>

\* idx = hash_func(value, table_size) for modulo_hash and built_in_hash
HashCall ==
    /\ pc = "exp_loop"
    /\ k < Len(inputs)
    /\ hash_func \in {"modulo", "built_in"}
    /\ LET value == inputs[k + 1]
       IN  \E sh \in (IF value.tag = "str" THEN StrHashes(value.s) ELSE {0}) :
             LET r == IF hash_func = "modulo"
                      THEN modulo_hash(value, table_size, sh)
                      ELSE built_in_hash(value, table_size, sh)
             IN  /\ strhash' = IF value.tag = "str"
                               THEN (value.s :> sh) @@ strhash ELSE strhash
                 /\ IF r.ok
                    THEN idx' = r.idx /\ pc' = "tally" /\ err' = err
                    ELSE idx' = idx /\ Failed(r.exc)
    /\ UNCHANGED <<cfgvars, rng, tape, sweepvars, table_size, inputs, k,
                   bucket_counts, collisions, result, polyvars>>

\* polynomial_hash: s = str(value); h = 0
PolyBegin ==
    /\ pc = "exp_loop"
    /\ k < Len(inputs)
    /\ hash_func = "polynomial"
    /\ s' = PyStr(inputs[k + 1])
    /\ h' = 0
    /\ j' = 0
    /\ pc' = "poly"
    /\ UNCHANGED <<cfgvars, err, procvars, sweepvars, expvars>>

\* for ch in s: h = (h * base + ord(ch)) % table_size
PolyStep ==
    /\ pc = "poly"
    /\ j < Len(s)
    /\ IF table_size = 0
       THEN Failed("ZeroDivisionError") /\ UNCHANGED <<h, j>>
       ELSE /\ h' = PolyFold(h, base, s[j + 1], table_size)
            /\ j' = j + 1
            /\ UNCHANGED <<pc, err>>
    /\ UNCHANGED <<cfgvars, procvars, sweepvars, expvars, s>>

\* return h
PolyReturn ==
    /\ pc = "poly"
    /\ j = Len(s)
    /\ idx' = h
    /\ pc' = "tally"
    /\ UNCHANGED <<cfgvars, err, procvars, sweepvars, table_size, inputs, k,
                   bucket_counts, collisions, result, polyvars>>

\* if bucket_counts[idx] > 0: collisions += 1;  bucket_counts[idx] += 1
Tally ==
    /\ pc = "tally"
    /\ IF ValidIndex(bucket_counts, idx)
       THEN LET p == ListPos(bucket_counts, idx)
            IN  /\ collisions' = IF IsCollision(bucket_counts, p)
                                 THEN collisions + 1 ELSE collisions
                /\ bucket_counts' = [bucket_counts EXCEPT ![p] = @ + 1]
                /\ k' = k + 1
                /\ pc' = "exp_loop"
                /\ err' = err
       ELSE Failed("IndexError") /\ UNCHANGED <<collisions, bucket_counts, k>>
    /\ UNCHANGED <<cfgvars, procvars, sweepvars, table_size, inputs, idx,
                   result, polyvars>>

\* the returned dict; collision_probability is collisions / len(inputs), kept as
\* the pair <<numerator, denominator>>
ExpResult(c, n, bc) ==
    [total_collisions |-> c, collision_probability |-> <<c, n>>, bucket_counts |-> bc]

\* return {...}
ExpReturn ==
    /\ pc = "exp_loop"
    /\ k = Len(inputs)
    /\ IF Len(inputs) = 0
       THEN Failed("ZeroDivisionError") /\ result' = result
       ELSE /\ result' = ExpResult(collisions, Len(inputs), bucket_counts)
            /\ pc' = "exp_ret"
            /\ err' = err
    /\ UNCHANGED <<cfgvars, procvars, sweepvars, table_size, inputs, k,
                   bucket_counts, collisions, idx, polyvars>>

ExpNext ==
    \/ ExpBegin \/ HashCall \/ PolyBegin \/ PolyStep \/ PolyReturn \/ Tally
    \/ ExpReturn

----------------------------------------------------------------------------
\* ExpSpec: a direct call run_collision_experiment(hash_func, table_size, inputs,
\* base=base) on any values.

ExpValues == {IntV(-2), IntV(-1), IntV(1), IntV(5),
              StrV(<<>>), StrV(<<97>>), StrV(<<97, 48>>)}

ExpTables == {-2, 0} \cup (1..MaxTable) \cup {10}

ExpBases == {0, 2, DefaultBase}

SeqsUpTo(S, n) == UNION {[1..m -> S] : m \in 0..n}

ExpInit ==
    /\ hash_func \in {"modulo", "polynomial", "built_in"}
    /\ base \in (IF hash_func = "polynomial" THEN ExpBases ELSE {DefaultBase})
    /\ table_size \in ExpTables
    /\ inputs \in SeqsUpTo(ExpValues, MaxLen)
    /\ table_sizes = <<>> /\ input_sizes = <<>>
    /\ distribution = "none" /\ seed = NoSeed /\ string_length = DefaultStringLength
    /\ pc = "exp_call" /\ err = "none"
    /\ rng = [seeded |-> FALSE, pos |-> 0] /\ tape = <<>> /\ strhash = <<>>
    /\ ti = 0 /\ ii = 0 /\ results = <<>> /\ gens = 0 /\ run = 0
    /\ prev = "none"
    /\ k = 0 /\ bucket_counts = <<>> /\ collisions = 0
    /\ idx = "none" /\ result = "none"
    /\ s = <<>> /\ j = 0 /\ h = 0

ExpSpec == ExpInit /\ [][ExpNext]_vars

----------------------------------------------------------------------------
\* collision_analysis.py: the input generator

\* string.ascii_letters + string.digits, cut down to 'a' and '0'
Alphabet == {97, 48}

\* what one element of a generated list can be
Elements ==
    IF distribution = "random_integers" THEN {IntV(n) : n \in 0..MaxRand}
    ELSE {StrV(str) : str \in [1..string_length -> Alphabet]}

\* generate_structured_sequence(n): list(range(n))
StructuredStride(n) == [i \in 1..n |-> IntV(2 * (i - 1))]

generate_structured_sequence(n) == [i \in 1..n |-> IntV(i - 1)]

\* The lists n draws can give with the generator at r: a seeded generator is a
\* function of its seed, so a position drawn before gives what it gave then.
Draws(n, r) ==
    {xs \in [1..n -> Elements] :
        r.seeded => \A i \in 1..n : r.pos + i <= Len(tape) => xs[i] = tape[r.pos + i]}

\* the seeded generator's stream once xs has been drawn at r
Drawn(xs, r) ==
    IF ~r.seeded THEN tape
    ELSE [i \in 1..(IF r.pos + Len(xs) > Len(tape) THEN r.pos + Len(xs) ELSE Len(tape)) |->
            IF i <= Len(tape) THEN tape[i] ELSE xs[i - r.pos]]

----------------------------------------------------------------------------
\* main and run_sweep_experiments

\* if args.seed is not None: random.seed(args.seed)
SeedRngNever(sd, r) == r

SeedRng(sd, r) == IF sd.given THEN [seeded |-> TRUE, pos |-> 0] ELSE r

\* results[(table_size, input_size)]
CellKeySwapped(t, n) == <<n, t>>

CellKey(t, n) == <<t, n>>

\* main up to the call of run_sweep_experiments, and results = {}
Seed ==
    /\ pc = "main"
    /\ rng' = SeedRng(seed, rng)
    /\ results' = <<>>
    /\ ti' = 1 /\ ii' = 1
    /\ pc' = "sweep"
    /\ UNCHANGED <<cfgvars, err, tape, strhash, gens, run, prev, expvars, polyvars>>

\* inputs = get_inputs(distribution, input_size, **gen_kwargs), and the call of
\* run_collision_experiment(hash_func, table_size, inputs)
GetInputs ==
    /\ pc = "sweep"
    /\ ti <= Len(table_sizes)
    /\ LET n == input_sizes[ii]
       IN  IF distribution = "structured"
           THEN /\ inputs' = generate_structured_sequence(n)
                /\ UNCHANGED <<rng, tape>>
           ELSE \E xs \in Draws(n, rng) :
                    /\ inputs' = xs
                    /\ tape' = Drawn(xs, rng)
                    /\ rng' = [rng EXCEPT !.pos = @ + n]
    /\ gens' = gens + 1
    /\ table_size' = table_sizes[ti]
    /\ pc' = "exp_call"
    /\ UNCHANGED <<cfgvars, err, strhash, ti, ii, results, run, prev, k,
                   bucket_counts, collisions, idx, result, polyvars>>

\* results[(table_size, input_size)] = result, and on to the next cell
Store ==
    /\ pc = "exp_ret"
    /\ results' = (CellKey(table_size, input_sizes[ii]) :> result) @@ results
    /\ IF ii < Len(input_sizes)
       THEN ii' = ii + 1 /\ ti' = ti
       ELSE ii' = 1 /\ ti' = ti + 1
    /\ pc' = "sweep"
    /\ UNCHANGED <<cfgvars, err, procvars, gens, run, prev, expvars, polyvars>>

\* return results
SweepDone ==
    /\ pc = "sweep"
    /\ ti > Len(table_sizes)
    /\ pc' = "done"
    /\ UNCHANGED <<cfgvars, err, procvars, sweepvars, expvars, polyvars>>

\* The program is started again with the same command line: a new process, with
\* a generator seeded by the system and a new string-hash key.
Rerun ==
    /\ pc \in {"done", "failed"}
    /\ run = 1
    /\ prev' = [results |-> results, err |-> err]
    /\ run' = 2
    /\ pc' = "main" /\ err' = "none"
    /\ rng' = [seeded |-> FALSE, pos |-> 0] /\ strhash' = <<>>
    /\ ti' = 0 /\ ii' = 0 /\ results' = <<>> /\ gens' = 0
    /\ table_size' = 0 /\ inputs' = <<>> /\ k' = 0 /\ bucket_counts' = <<>>
    /\ collisions' = 0 /\ idx' = "none" /\ result' = "none"
    /\ s' = <<>> /\ j' = 0 /\ h' = 0
    /\ UNCHANGED <<cfgvars, tape>>

Lists(S) == UNION {[1..m -> S] : m \in 1..MaxList}

Init ==
    /\ hash_func \in {"modulo", "polynomial", "built_in"}
    /\ base = DefaultBase
    /\ table_sizes \in Lists(-1..MaxTable)
    /\ input_sizes \in Lists(0..MaxInput)
    /\ distribution \in {"random_integers", "random_strings", "structured"}
    /\ string_length \in (IF distribution = "random_strings" THEN {0, 1}
                          ELSE {DefaultStringLength})
    /\ seed \in {NoSeed, [given |-> TRUE, value |-> 0]}
    /\ pc = "main" /\ err = "none"
    /\ rng = [seeded |-> FALSE, pos |-> 0] /\ tape = <<>> /\ strhash = <<>>
    /\ ti = 0 /\ ii = 0 /\ results = <<>> /\ gens = 0 /\ run = 1
    /\ prev = "none"
    /\ table_size = 0 /\ inputs = <<>> /\ k = 0 /\ bucket_counts = <<>>
    /\ collisions = 0 /\ idx = "none" /\ result = "none"
    /\ s = <<>> /\ j = 0 /\ h = 0

Next ==
    \/ Seed \/ GetInputs \/ Store \/ SweepDone
    \/ ExpBegin \/ HashCall \/ PolyBegin \/ PolyStep \/ PolyReturn \/ Tally
    \/ ExpReturn

Spec == Init /\ [][Next]_vars

\* RerunSpec: the program run, and then run again, on random integers.
RerunInit == Init /\ distribution = "random_integers"

RerunNext ==
    \/ Seed \/ GetInputs \/ Store \/ SweepDone \/ Rerun
    \/ ExpBegin \/ HashCall \/ PolyBegin \/ PolyStep \/ PolyReturn \/ Tally
    \/ ExpReturn

RerunSpec == RerunInit /\ [][RerunNext]_vars

----------------------------------------------------------------------------
\* What the properties below are stated with.

\* the experiment has allocated its buckets and has not raised
InExperiment == pc \in {"exp_loop", "poly", "tally", "exp_ret"}

RECURSIVE SumTo(_, _)
SumTo(bc, n) == IF n = 0 THEN 0 ELSE bc[n - 1] + SumTo(bc, n - 1)
\* sum(bucket_counts)
Sum(bc) == SumTo(bc, BucketLen(bc))

\* the number of non-empty buckets
Occupied(bc) == Cardinality({b \in DOMAIN bc : bc[b] > 0})

RECURSIVE Pow(_, _)
Pow(b, e) == IF e = 0 THEN 1 ELSE b * Pow(b, e - 1)

RECURSIVE PolyTerms(_, _, _)
\* str[1] * base^(n-1) + ... + str[i] * base^(n-i): the first i terms of the
\* polynomial of the first n characters
PolyTerms(str, n, i) ==
    IF i = 0 THEN 0 ELSE str[i] * Pow(base, n - i) + PolyTerms(str, n, i - 1)

\* the polynomial's value in [0, t), for t > 0
PolyValue(str, n, t) == PolyTerms(str, n, n) % t

\* the bucket of an input already hashed in this experiment, for table_size > 0
BucketOf(v) ==
    IF hash_func = "polynomial" THEN PolyValue(PyStr(v), Len(PyStr(v)), table_size)
    ELSE IF v.tag = "str" THEN strhash[v.s] % table_size
    ELSE IF hash_func = "modulo" THEN v.n % table_size
    ELSE PyHashInt(v.n) % table_size

\* the inputs among the first n that came to a bucket an earlier input was in
Collided(n) ==
    {i \in 1..n : \E e \in 1..(i - 1) : BucketOf(inputs[e]) = BucketOf(inputs[i])}

----------------------------------------------------------------------------
\* C1: an input is counted as a collision exactly when an earlier input of the
\* run went to the same bucket, so a bucket that received n >= 1 inputs adds
\* n - 1: total_collisions = inputs processed - non-empty buckets; [5, 5, 5]
\* with table size 10 and modulo_hash gives bucket_counts[5] = 3 and 2 collisions.
C1_OccupiedBeforeInsertion ==
    /\ (InExperiment /\ table_size > 0) =>
          /\ collisions = Cardinality(Collided(k))
          /\ collisions = k - Occupied(bucket_counts)
    /\ (pc = "exp_ret" /\ table_size > 0) =>
          result.total_collisions = Len(inputs) - Occupied(result.bucket_counts)
    /\ (/\ pc = "exp_ret" /\ hash_func = "modulo" /\ table_size = 10
        /\ inputs = <<IntV(5), IntV(5), IntV(5)>>) =>
          result.bucket_counts[5] = 3 /\ result.total_collisions = 2

C1_Witness ==
    /\ pc = "exp_ret" /\ hash_func = "modulo" /\ table_size = 10
    /\ inputs = <<IntV(5), IntV(5), IntV(5)>>
    /\ result.bucket_counts[5] = 3 /\ result.total_collisions = 2

\* C2: with table_size > 0, bucket_counts has exactly table_size entries, its sum
\* is k after k inputs, and the returned bucket_counts sums to len(inputs).
C2_SumIsInputCount ==
    /\ (InExperiment /\ table_size > 0) =>
          /\ BucketLen(bucket_counts) = table_size
          /\ DOMAIN bucket_counts = 0..(table_size - 1)
          /\ Sum(bucket_counts) = k
    /\ (pc = "exp_ret" /\ table_size > 0) =>
          /\ BucketLen(result.bucket_counts) = table_size
          /\ Sum(result.bucket_counts) = Len(inputs)

C2_Witness ==
    /\ pc = "exp_ret" /\ table_size = 2 /\ Len(inputs) = 3
    /\ result.bucket_counts = (0 :> 1) @@ (1 :> 2)

\* C3: with table_size > 0 every hash function returns, for every value (negative
\* integers too), an index in [0, table_size).
C3_IndexInRange ==
    (pc = "tally" /\ table_size > 0) => (idx >= 0 /\ idx < table_size)

C3_Witness ==
    /\ pc = "tally" /\ table_size = 3 /\ hash_func = "modulo"
    /\ k < Len(inputs) /\ inputs[k + 1] = IntV(-2) /\ idx = 1

\* C4: an experiment on an empty input list ends with an InvalidInputError: no
\* raw division fault, no result.
C4_EmptyInputsReported ==
    (inputs = <<>> /\ pc \in {"failed", "exp_ret"}) =>
        (pc = "failed" /\ err = "InvalidInputError")

\* C5: with table_size <= 0 a hash function returns no index and raises a
\* ConfigurationError, whatever the value.
C5_BadTableSizeRejected ==
    table_size <= 0 =>
        /\ pc # "tally"
        /\ (pc = "failed" /\ k < Len(inputs)) => err = "ConfigurationError"

\* the cells of the sweep: positions in table_sizes x input_sizes
Cells == (1..Len(table_sizes)) \X (1..Len(input_sizes))

RECURSIVE SumSeq(_, _)
SumSeq(q, n) == IF n = 0 THEN 0 ELSE q[n] + SumSeq(q, n - 1)

\* C6: the sweep validates its configuration before any input is generated and
\* any experiment is run: when it fails, no cell has had inputs generated.
C6_ValidatedBeforeAnyCell ==
    pc = "failed" => (gens = 0 /\ results = <<>>)

\* C7: after a successful sweep the keys are the cross-product of table_sizes and
\* input_sizes, get_inputs was called once per cell (the draws of a random
\* distribution never shared between cells), and the result under (t, n) has t
\* buckets that sum to n.
C7_OneFreshExperimentPerCell ==
    pc = "done" =>
        /\ DOMAIN results = {<<table_sizes[c[1]], input_sizes[c[2]]>> : c \in Cells}
        /\ gens = Cardinality(Cells)
        /\ distribution # "structured" =>
              rng.pos = Len(table_sizes) * SumSeq(input_sizes, Len(input_sizes))
        /\ \A key \in DOMAIN results :
              /\ BucketLen(results[key].bucket_counts) = key[1]
              /\ Sum(results[key].bucket_counts) = key[2]

C7_Witness ==
    /\ pc = "done" /\ distribution = "random_integers"
    /\ table_sizes = <<3, 1>> /\ input_sizes = <<1, 2>>
    /\ gens = 4 /\ rng.pos = 6
    /\ Cardinality(DOMAIN results) = 4

\* C8: the structured inputs 0 .. n-1 (n >= 1) under modulo_hash in a table of at
\* least n buckets give no collision and no bucket more than one input.
C8_StructuredNoCollisions ==
    (distribution = "structured" /\ hash_func = "modulo") =>
        /\ (/\ pc = "exp_ret" /\ Len(inputs) >= 1 /\ table_size >= Len(inputs)) =>
              /\ result.total_collisions = 0
              /\ \A b \in DOMAIN result.bucket_counts : result.bucket_counts[b] <= 1
        /\ \A key \in DOMAIN results :
              (key[2] >= 1 /\ key[1] >= key[2]) =>
                  /\ results[key].total_collisions = 0
                  /\ \A b \in DOMAIN results[key].bucket_counts :
                        results[key].bucket_counts[b] <= 1

C8_Witness ==
    /\ distribution = "structured" /\ hash_func = "modulo"
    /\ pc = "done"
    /\ <<2, 2>> \in DOMAIN results
    /\ results[<<2, 2>>].total_collisions = 0
    /\ results[<<2, 2>>].bucket_counts = (0 :> 1) @@ (1 :> 1)

\* C9: two runs on random integers with the same table sizes, input sizes and
\* seed end with the same results: the same bucket_counts and total_collisions
\* in every cell (and the same failure, if the sweep fails).
C9_SameSeedSameResults ==
    (run = 2 /\ seed.given /\ pc \in {"done", "failed"}) =>
        /\ results = prev.results
        /\ err = prev.err

C9_Witness ==
    /\ run = 2 /\ seed.given /\ pc = "done"
    /\ table_sizes = <<2>> /\ input_sizes = <<2, 2>>
    /\ results[<<2, 2>>].total_collisions = 1
    /\ results = prev.results

\* C10: with table_size > 0 and base >= 0, polynomial_hash's accumulator after
\* each character is the polynomial of the characters read so far reduced into
\* [0, table_size); the returned bucket is that of the whole text, 0 for "".
C10_PolynomialFold ==
    (hash_func = "polynomial" /\ table_size > 0 /\ base >= 0) =>
        /\ pc = "poly" =>
              /\ h >= 0 /\ h < table_size
              /\ h = PolyValue(s, j, table_size)
        /\ pc = "tally" =>
              /\ idx = PolyValue(s, Len(s), table_size)
              /\ s = PyStr(inputs[k + 1])
              /\ s = <<>> => idx = 0

C10_Witness ==
    /\ hash_func = "polynomial" /\ table_size = 3 /\ base = DefaultBase
    /\ inputs = <<StrV(<<>>), StrV(<<97, 48>>)>>
    /\ k = 1 /\ bucket_counts[0] = 1
    /\ pc = "tally" /\ s = <<97, 48>> /\ idx = 1

====
